---------------------------- MODULE Spec2Model ----------------------------
(***************************************************************************)
(* A model of the invoice compressor (src/compressor.py) and of its GUI    *)
(* (src/app.py).                                                           *)
(*                                                                         *)
(*   - compress_image_data: the quality/scale ladder, as the operators     *)
(*     LadderInit / LadderBody / LoopCond and, step by step, as the        *)
(*     specification SpecLadder.                                           *)
(*   - compress_image_file, compress_pdf, compress_file: operators over a  *)
(*     description of the input file.                                      *)
(*   - process_files: the batch loop, as the specification Spec, and a     *)
(*     batch of one job over every file of the model as SpecJob.           *)
(*   - the second rewrite of compress_pdf with its embedded images         *)
(*     (extract_and_compress_pdf_images and the page loop): SpecS2.        *)
(*   - CompressorApp: the handlers, the worker thread and the callbacks    *)
(*     queued with root.after, as the specification SpecGui.               *)
(*                                                                         *)
(* Representation.  Sizes are byte counts.  A float scale is kept in       *)
(* tenths (1.0 is 10, 0.3 is 3): the code only ever subtracts 0.1 from     *)
(* 1.0, and for those floats  scale >= 0.3,  scale < 1.0  and              *)
(* int(width * scale)  agree with the arithmetic in tenths.  The JPEG      *)
(* codec and the PDF writer are external: the size they produce is an      *)
(* input (an arbitrary function of the rung, not assumed monotone).  A     *)
(* string is a sequence of character codes.                                *)
(***************************************************************************)
EXTENDS Integers, Sequences, FiniteSets, TLC

VARIABLES
    \* ---- compress_image_data, one call (SpecLadder) ----
    image,          \* the call's image_data, described: [dec, size, width, height]
    target_size,    \* the call's target_size
    min_quality,    \* the call's min_quality
    lpc,            \* position in the call: "open", "loop", "returned", "idle"
    quality,        \* local quality
    scale,          \* local scale, in tenths
    best_result,    \* local best_result (a blob)
    rungs,          \* the blobs encoded so far, in order (history)
    returned,       \* the value returned (a blob), NoBlob before the return
    \* ---- process_files, one call (Spec) ----
    file_paths,     \* the argument file_paths
    has_callback,   \* whether progress_callback was given
    pc,             \* "start", "callback", "job", "zip", "done", "raised", "idle"
    i,              \* the loop index, 0-based as in the code
    stats,          \* the stats dict
    temp_dir,       \* the files of temp_dir: output name -> file
    calls,          \* the progress_callback calls and job completions (history)
    jobs,           \* what compress_file did for each job handled (history)
    zip,            \* the entries of the written archive
    fatal,          \* which step raised out of process_files, "none" if none
    \* ---- the second rewrite of compress_pdf, one pass (SpecS2) ----
    doc,            \* the pages reader2 reads, each with its embedded images
    compressed_images,  \* the mapping extract_and_compress_pdf_images returns
    page_num,       \* the index of the page loop, 0-based as in the code
    writer2,        \* the pages added to writer2 so far
    out_doc,        \* the pages of the document written to buffer2
    s2pc,           \* "extract", "pages", "write", "done", "idle"
    \* ---- the GUI, CompressorApp (SpecGui) ----
    files,          \* self.files
    processing,     \* self.processing
    select_btn,     \* state of select_btn: "normal" or "disabled"
    compress_btn,   \* state of compress_btn
    result_text,    \* what the result pane shows: "", "results", "error"
    workers,        \* the threads started, in order, each with its position
    tkq,            \* the callbacks handed to root.after(0, ...), first first
    gui_log         \* who wrote the flag and the widgets: [fn, ctx] (history)

ladder_vars == <<image, target_size, min_quality, lpc, quality, scale,
                 best_result, rungs, returned>>
batch_vars == <<file_paths, has_callback, pc, i, stats, temp_dir, calls, jobs,
                zip, fatal>>
s2_vars == <<doc, compressed_images, page_num, writer2, out_doc, s2pc>>
gui_vars == <<files, processing, select_btn, compress_btn, result_text,
              workers, tkq, gui_log>>
vars == <<ladder_vars, batch_vars, s2_vars, gui_vars>>

Min(a, b) == IF a <= b THEN a ELSE b
Max(a, b) == IF a >= b THEN a ELSE b

---------------------------------------------------------------------------
(* Program constants *)

MAX_SIZE_KB == 200
MAX_SIZE_BYTES == MAX_SIZE_KB * 1024

Q0 == 80
HighQuality == 40
BigStep == 10
SmallStep == 5
FullScale == 10
MinScale == 3
ErrLimit == 30

---------------------------------------------------------------------------
(* Bounds of the model *)

MaxJobs == 3
MaxEnc == 3

---------------------------------------------------------------------------
(* Blobs: the bytes of a file or of an encoded image.  kind "src" is the   *)
(* unchanged input bytes; kind "jpeg" is the JPEG encoded at one rung.     *)

NoBlob == [kind |-> "none", quality |-> 0, scale |-> 0, width |-> 0,
           height |-> 0, size |-> 0]

SrcBlob(size) == [kind |-> "src", quality |-> 0, scale |-> 0, width |-> 0,
                  height |-> 0, size |-> size]

JpegBlob(q, s, dims, size) ==
    [kind |-> "jpeg", quality |-> q, scale |-> s, width |-> dims[1],
     height |-> dims[2], size |-> size]

---------------------------------------------------------------------------
(* compress_image_data *)

\* resized: the pixel size encoded at a rung
Resized_round(img, s) ==
    IF s < FullScale
    THEN <<Max(1, (img.width * s + FullScale \div 2) \div FullScale),
           Max(1, (img.height * s + FullScale \div 2) \div FullScale)>>
    ELSE <<img.width, img.height>>

Resized(img, s) ==
    IF s < FullScale
    THEN <<Max(1, (img.width * s) \div FullScale),
           Max(1, (img.height * s) \div FullScale)>>
    ELSE <<img.width, img.height>>

\* the while condition
LoopCond(q, s, minq) == q >= minq /\ s >= MinScale

\* the step down at the end of the loop body
StepQuality_stuck(q) == IF q > HighQuality THEN q ELSE q - SmallStep

StepQuality_ge(q) == IF q >= HighQuality THEN q - BigStep ELSE q - SmallStep

StepQuality(q) == IF q > HighQuality THEN q - BigStep ELSE q - SmallStep

StepScale_up(q, s) == IF q > HighQuality THEN s ELSE s + 1

StepScale(q, s) == IF q > HighQuality THEN s ELSE s - 1

\* the short-circuit test
MeetsTarget_strict(size, target) == size < target

MeetsTarget(size, target) == size <= target

\* the locals before the loop
LadderInit(img) ==
    [quality |-> Q0, scale |-> FullScale, best_result |-> SrcBlob(img.size),
     rungs |-> <<>>, returned |-> NoBlob]

\* one iteration of the loop body; encoded is the size the codec produces
LadderBody(L, img, encoded, target) ==
    LET result == JpegBlob(L.quality, L.scale, Resized(img, L.scale), encoded)
    IN  IF MeetsTarget(encoded, target)
        THEN [L EXCEPT !.best_result = result,
                       !.rungs = Append(L.rungs, result),
                       !.returned = result]
        ELSE [L EXCEPT !.best_result = result,
                       !.rungs = Append(L.rungs, result),
                       !.quality = StepQuality(L.quality),
                       !.scale = StepScale(L.quality, L.scale)]

\* the return after the loop
LadderExit(L) == [L EXCEPT !.returned = L.best_result]

\* the whole loop, for an image whose codec sizes are the sequence img.enc
\* (img.enc[n] is the size of the n-th encode)
RECURSIVE RunLadder(_, _, _, _)
RunLadder(L, img, target, minq) ==
    IF L.returned # NoBlob THEN L
    ELSE IF LoopCond(L.quality, L.scale, minq)
         THEN RunLadder(LadderBody(L, img, img.enc[Len(L.rungs) + 1], target),
                        img, target, minq)
         ELSE LadderExit(L)

compress_image_data(img, target, minq) ==
    IF ~img.dec THEN SrcBlob(img.size)
    ELSE RunLadder(LadderInit(img), img, target, minq).returned

---------------------------------------------------------------------------
(* Files.  An input file is described by what the code can observe of it:  *)
(*   fault  "none"; "unreadable": its bytes cannot be read (open, copy and  *)
(*          PdfReader raise, getsize does not); "truncated": an image whose *)
(*          header opens and whose pixel data fails to load; "corrupt": a  *)
(*          PDF PdfReader cannot parse; "s2": a PDF whose second rewrite   *)
(*          raises before it writes; "late": it raises after it wrote      *)
(*   err    the text of the exception the fault raises                     *)
(*   size   its size in bytes                                              *)
(*   dec, width, height, enc   for an image: whether Image.open decodes    *)
(*          it, its pixel size, the sizes the codec produces rung by rung  *)
(*   s1, s2 for a PDF: the sizes of the lossless and the second rewrite    *)

NoName == [stem |-> "", ext |-> ""]

\* str.lower on the extensions used
Lower(ext) ==
    CASE ext = ".JPG" -> ".jpg"
      [] ext = ".PDF" -> ".pdf"
      [] OTHER -> ext

\* os.path.basename
Basename(path) == [stem |-> path.stem, ext |-> path.ext]

PdfBlob(kind, size) == [kind |-> kind, quality |-> 0, scale |-> 0, width |-> 0,
                        height |-> 0, size |-> size]

\* what a callee hands back: it raised err, or it returned ok having left
\* written at its output path (NoBlob: nothing written)
Raised(err, trace) ==
    [raised |-> TRUE, err |-> err, ok |-> FALSE, written |-> NoBlob,
     trace |-> trace]

Returned(ok, written, trace) ==
    [raised |-> FALSE, err |-> <<>>, ok |-> ok, written |-> written,
     trace |-> trace]

---------------------------------------------------------------------------
(* compress_image_file *)

DefaultMinQuality == 25

ImageFileOk_strict(compressed) == compressed.size < MAX_SIZE_BYTES

\* the value returned: len(compressed) <= MAX_SIZE_BYTES
ImageFileOk(compressed) == compressed.size <= MAX_SIZE_BYTES

compress_image_file(f) ==
    IF f.fault = "unreadable" THEN Raised(f.err, <<"read">>)
    ELSE IF f.fault = "truncated" THEN Raised(f.err, <<"read", "encode">>)
    ELSE LET compressed ==
                 compress_image_data(f, MAX_SIZE_BYTES, DefaultMinQuality)
         IN  Returned(ImageFileOk(compressed), compressed,
                      <<"read", "encode", "write">>)

---------------------------------------------------------------------------
(* compress_pdf *)

\* the passthrough test
Passthrough_strict(original_size) == original_size < MAX_SIZE_BYTES

Passthrough(original_size) == original_size <= MAX_SIZE_BYTES

\* the regression guard: final_size > MAX_SIZE_BYTES and
\* final_size > original_size * 0.5
RegressionGuard_nohalf(final_size, original_size) ==
    final_size > MAX_SIZE_BYTES

RegressionGuard(final_size, original_size) ==
    final_size > MAX_SIZE_BYTES /\ 2 * final_size > original_size

\* the except branch: copy the source over the output; the copy raises in
\* turn when the source cannot be read
PdfFallback_nocopy(f, trace) ==
    IF f.fault = "unreadable"
    THEN Raised(f.err, Append(trace, "fallback"))
    ELSE Returned(FALSE, NoBlob, Append(trace, "fallback"))

PdfFallback_success(f, trace) ==
    IF f.fault = "unreadable"
    THEN Raised(f.err, Append(trace, "fallback"))
    ELSE Returned(TRUE, SrcBlob(f.size), Append(trace, "fallback"))

PdfFallback(f, trace) ==
    IF f.fault = "unreadable"
    THEN Raised(f.err, Append(trace, "fallback"))
    ELSE Returned(f.size <= MAX_SIZE_BYTES, SrcBlob(f.size),
                  Append(trace, "fallback"))

\* the test on the size of the lossless rewrite held in the buffer
S1Fits_strict(size) == size < MAX_SIZE_BYTES

S1Fits(size) == size <= MAX_SIZE_BYTES

\* the value returned after the second rewrite: the output file's size
\* against the ceiling
WithinBudget(size) == size <= MAX_SIZE_BYTES

compress_pdf(f) ==
    LET original_size == f.size
    IN  IF Passthrough(original_size)
        THEN IF f.fault = "unreadable"
             THEN Raised(f.err, <<"S0">>)
             ELSE Returned(TRUE, SrcBlob(original_size), <<"S0">>)
        ELSE IF f.fault \in {"unreadable", "corrupt"}
        THEN PdfFallback(f, <<"S1">>)
        ELSE IF S1Fits(f.s1)
        THEN Returned(TRUE, PdfBlob("s1", f.s1), <<"S1">>)
        ELSE IF f.fault \in {"s2", "late"}
        THEN PdfFallback(f, <<"S1", "S2">>)
        ELSE IF RegressionGuard(f.s2, original_size)
        THEN Returned(WithinBudget(f.s1), PdfBlob("s1", f.s1),
                      <<"S1", "S2", "guard">>)
        ELSE Returned(WithinBudget(f.s2), PdfBlob("s2", f.s2),
                      <<"S1", "S2">>)

---------------------------------------------------------------------------
(* compress_file *)

\* temp_dir with file name holding blob, written by job
WriteFile(dir, name, blob, job) ==
    [n \in DOMAIN dir \cup {name} |->
        IF n = name THEN [blob |-> blob, job |-> job] ELSE dir[n]]

OutputPath_keepext(path, ext) == [stem |-> path.stem, ext |-> path.ext]

\* os.path.join(output_dir, path.stem + ext)
OutputPath(path, ext) == [stem |-> path.stem, ext |-> ext]

\* job is the 1-based position of the call in the batch (history only)
compress_file(path, f, dir, job) ==
    LET ext == Lower(path.ext)
        Finish(output_path, r) ==
            LET dir2 == IF r.written # NoBlob
                        THEN WriteFile(dir, output_path, r.written, job)
                        ELSE dir
            IN  [raised |-> r.raised, err |-> r.err,
                 output_path |-> output_path,
                 success |-> r.ok,
                 final_size |-> IF output_path \in DOMAIN dir2
                                THEN dir2[output_path].blob.size \div 1024
                                ELSE 0,
                 trace |-> r.trace,
                 dir |-> dir2]
    IN  IF ext = ".pdf"
        THEN Finish(OutputPath(path, ".pdf"), compress_pdf(f))
        ELSE IF ext \in {".png", ".jpg", ".jpeg"}
        THEN Finish(OutputPath(path, ".jpg"), compress_image_file(f))
        ELSE [raised |-> FALSE, err |-> <<>>, output_path |-> NoName,
              success |-> FALSE, final_size |-> 0, trace |-> <<>>,
              dir |-> dir]

---------------------------------------------------------------------------
(* process_files: the handling of one job's outcome *)

\* str(e)[:30]
Truncate_none(e) == e

Truncate(e) == SubSeq(e, 1, Min(Len(e), ErrLimit))

\* the status strings "OK (n Ko)", "Trop gros (n Ko)", "Erreur: <text>"
Status(tag, kb, text) == [tag |-> tag, kb |-> kb, text |-> text]

Account_nofail(st, filename, r) ==
    IF r.raised
    THEN [st EXCEPT !.details = Append(@, [filename |-> filename,
                        status |-> Status("Erreur", 0, Truncate(r.err))])]
    ELSE IF r.success /\ r.output_path # NoName
    THEN [st EXCEPT !.success = @ + 1,
                    !.details = Append(@, [filename |-> filename,
                        status |-> Status("OK", r.final_size, <<>>)])]
    ELSE [st EXCEPT !.failed = @ + 1,
                    !.details = Append(@, [filename |-> filename,
                        status |-> Status("Trop gros", r.final_size, <<>>)])]

\* the inner try/except of the loop, r being what compress_file did
Account(st, filename, r) ==
    IF r.raised
    THEN [st EXCEPT !.failed = @ + 1,
                    !.details = Append(@, [filename |-> filename,
                        status |-> Status("Erreur", 0, Truncate(r.err))])]
    ELSE IF r.success /\ r.output_path # NoName
    THEN [st EXCEPT !.success = @ + 1,
                    !.details = Append(@, [filename |-> filename,
                        status |-> Status("OK", r.final_size, <<>>)])]
    ELSE [st EXCEPT !.failed = @ + 1,
                    !.details = Append(@, [filename |-> filename,
                        status |-> Status("Trop gros", r.final_size, <<>>)])]

ProgressArgs_zero_based(idx, paths) ==
    [ev |-> "progress", current |-> idx, total |-> Len(paths),
     filename |-> Basename(paths[idx + 1])]

\* progress_callback(i + 1, len(file_paths), filename)
ProgressArgs(idx, paths) ==
    [ev |-> "progress", current |-> idx + 1, total |-> Len(paths),
     filename |-> Basename(paths[idx + 1])]

---------------------------------------------------------------------------
(* Inputs of the model *)

EncUnit == MAX_SIZE_BYTES \div 2

\* the sizes the codec may produce at a rung
EncSizes == {k * EncUnit : k \in 1..MaxEnc}

\* the targets compress_image_data is called with
Targets == {k * EncUnit : k \in (MaxEnc - 2)..MaxEnc}

\* the min_quality values: the two of the in-repo callers (25, 20), one above
\* Q0 (no rung), one between the steps, one below every rung
MinQualities == {-50, 20, 25, 43, 81}

\* pixel sizes
Dims == {<<1, 1>>, <<3, 10>>, <<15, 4>>}

LadderImages ==
    {[dec |-> d, size |-> MaxEnc * EncUnit, width |-> wh[1], height |-> wh[2]] :
        d \in BOOLEAN, wh \in Dims}

\* the texts of the exceptions raised: [1, 2, ..., n]
ErrText(n) == [k \in 1..n |-> k]

NoEnc == <<>>

File(fault, err, size, dec, enc, s1, s2) ==
    [fault |-> fault, err |-> err, size |-> size, dec |-> dec,
     width |-> 15, height |-> 4, enc |-> enc, s1 |-> s1, s2 |-> s2]

\* codec sizes along the 8 rungs of min_quality 25: the first rung fits; only
\* the last fits, exactly; none fits and the last is not the smallest
EncFirst == [n \in 1..8 |-> 100000]
EncLast == [n \in 1..8 |-> IF n = 8 THEN MAX_SIZE_BYTES ELSE 300000]
EncNone == [n \in 1..8 |-> IF n = 7 THEN MAX_SIZE_BYTES + 1 ELSE 220000]

\* every image file of the model
ImageFiles ==
    {File("none", <<>>, 500000, TRUE, e, 0, 0) :
        e \in {EncFirst, EncLast, EncNone}}
    \cup {File("none", <<>>, sz, FALSE, NoEnc, 0, 0) :
            sz \in {1000, MAX_SIZE_BYTES, MAX_SIZE_BYTES + 1, 300000}}
    \cup {File("unreadable", ErrText(n), 1000, FALSE, NoEnc, 0, 0) :
            n \in {0, 12, 30, 31}}
    \cup {File("truncated", ErrText(31), 1000, TRUE, NoEnc, 0, 0)}

PdfSizes == {1000, MAX_SIZE_BYTES, MAX_SIZE_BYTES + 1, 409600, 500000}
S1Sizes == {MAX_SIZE_BYTES, MAX_SIZE_BYTES + 1, 260000}
S2Sizes == {1000, MAX_SIZE_BYTES, MAX_SIZE_BYTES + 1, MAX_SIZE_BYTES + 5,
            240000, 250000, 250001, 300000}
PdfFaults == {"none", "unreadable", "corrupt", "s2", "late"}

\* every PDF file of the model. s1 and s2 are the sizes pypdf's writer gives
\* the first and the second rewrite. compress_pdf puts no order on them: the
\* second rewrite repeats the first on the same file without add_metadata,
\* and add_metadata overwrites the writer's own /Producer entry ("pypdf")
\* with the source's, so a source whose only metadata is a shorter /Producer
\* has a first rewrite a few bytes smaller than the second (s1 = target + 1,
\* s2 = target + 5); a source with more metadata has the larger first rewrite
PdfFiles ==
    {File(fault, IF fault = "none" THEN <<>> ELSE ErrText(12), sz, FALSE,
          NoEnc, s1, s2) :
        fault \in PdfFaults, sz \in PdfSizes, s1 \in S1Sizes, s2 \in S2Sizes}

OtherFiles == {File("none", <<>>, 1000, FALSE, NoEnc, 0, 0)}

\* the files a path may name
FilesFor(path) ==
    IF Lower(path.ext) = ".pdf" THEN PdfFiles
    ELSE IF Lower(path.ext) \in {".png", ".jpg", ".jpeg"} THEN ImageFiles
    ELSE OtherFiles

\* the files of a batch: one of each outcome process_files tells apart (an
\* image within budget, over budget, undecodable small and large, unreadable,
\* truncated;
\* a PDF passed through, over budget after the guard, unparsable small and
\* large, unreadable)
BatchImageFiles ==
    {File("none", <<>>, 500000, TRUE, EncLast, 0, 0),
     File("none", <<>>, 500000, TRUE, EncNone, 0, 0),
     File("none", <<>>, 1000, FALSE, NoEnc, 0, 0),
     File("none", <<>>, 300000, FALSE, NoEnc, 0, 0),
     File("unreadable", ErrText(31), 1000, FALSE, NoEnc, 0, 0),
     File("truncated", ErrText(31), 1000, TRUE, NoEnc, 0, 0)}

BatchPdfFiles ==
    {File("none", <<>>, MAX_SIZE_BYTES, FALSE, NoEnc, MAX_SIZE_BYTES, 1000),
     File("none", <<>>, 500000, FALSE, NoEnc, 260000, 300000),
     File("corrupt", ErrText(12), 1000, FALSE, NoEnc, 260000, 300000),
     File("corrupt", ErrText(12), 500000, FALSE, NoEnc, 260000, 300000),
     File("unreadable", ErrText(12), 500000, FALSE, NoEnc, 260000, 300000)}

BatchFilesFor(path) ==
    IF Lower(path.ext) = ".pdf" THEN BatchPdfFiles
    ELSE IF Lower(path.ext) \in {".png", ".jpg", ".jpeg"} THEN BatchImageFiles
    ELSE OtherFiles

Path(dir, stem, ext) == [dir |-> dir, stem |-> stem, ext |-> ext]

Paths == {Path("x", "a", ".png"), Path("x", "a", ".JPG"),
          Path("x", "a", ".pdf"), Path("x", "b", ".jpeg"),
          Path("x", "c", ".txt")}

\* the lists process_files is called with: distinct paths, as a folder scan
\* yields them
PathLists ==
    UNION {{s \in [1..n -> Paths] :
                \A a, b \in 1..n : a # b => s[a] # s[b]} : n \in 0..MaxJobs}

\* the sizes getsize may report for the archive, in KB
ZipSizes == {0, 150}

EmptyDir == [n \in {} |-> NoBlob]

---------------------------------------------------------------------------
(* SpecLadder: one call of compress_image_data, step by step *)

\* the stats dict as created; zip_size_kb -1 stands for the key being absent
NewStats(total) ==
    [total |-> total, success |-> 0, failed |-> 0, details |-> <<>>,
     zip_size_kb |-> -1]

BatchIdle ==
    /\ file_paths = <<>>
    /\ has_callback = FALSE
    /\ pc = "idle"
    /\ i = 0
    /\ stats = NewStats(0)
    /\ temp_dir = EmptyDir
    /\ calls = <<>>
    /\ jobs = <<>>
    /\ zip = EmptyDir
    /\ fatal = "none"

\* the mapping extract_and_compress_pdf_images returns when it has nothing
\* to compress: {}
NoCompressed == [key \in {} |-> NoBlob]

\* no second rewrite is running
S2Idle ==
    /\ doc = <<>>
    /\ compressed_images = NoCompressed
    /\ page_num = 0
    /\ writer2 = <<>>
    /\ out_doc = <<>>
    /\ s2pc = "idle"

\* the GUI as constructed: no folder selected, nothing running
GuiIdle ==
    /\ files = <<>>
    /\ processing = FALSE
    /\ select_btn = "normal"
    /\ compress_btn = "disabled"
    /\ result_text = ""
    /\ workers = <<>>
    /\ tkq = <<>>
    /\ gui_log = {}

LadderInitState ==
    /\ image \in LadderImages
    /\ target_size \in Targets
    /\ min_quality \in MinQualities
    /\ lpc = "open"
    /\ quality = 0
    /\ scale = 0
    /\ best_result = NoBlob
    /\ rungs = <<>>
    /\ returned = NoBlob
    /\ BatchIdle
    /\ S2Idle
    /\ GuiIdle

Locals == [quality |-> quality, scale |-> scale, best_result |-> best_result,
           rungs |-> rungs, returned |-> returned]

SetLocals(L) ==
    /\ quality' = L.quality
    /\ scale' = L.scale
    /\ best_result' = L.best_result
    /\ rungs' = L.rungs
    /\ returned' = L.returned

\* Image.open in its try: an undecodable input is returned as it is
LadderOpen ==
    /\ lpc = "open"
    /\ IF image.dec
       THEN /\ SetLocals(LadderInit(image))
            /\ lpc' = "loop"
       ELSE /\ returned' = SrcBlob(image.size)
            /\ lpc' = "returned"
            /\ UNCHANGED <<quality, scale, best_result, rungs>>
    /\ UNCHANGED <<image, target_size, min_quality, batch_vars, s2_vars,
                 gui_vars>>

\* one iteration of the while loop
LadderRung ==
    /\ lpc = "loop"
    /\ LoopCond(quality, scale, min_quality)
    /\ \E encoded \in EncSizes :
          LET L == LadderBody(Locals, image, encoded, target_size)
          IN  /\ SetLocals(L)
              /\ lpc' = IF L.returned # NoBlob THEN "returned" ELSE "loop"
    /\ UNCHANGED <<image, target_size, min_quality, batch_vars, s2_vars,
                 gui_vars>>

\* the loop condition fails: return best_result
LadderReturn ==
    /\ lpc = "loop"
    /\ ~LoopCond(quality, scale, min_quality)
    /\ SetLocals(LadderExit(Locals))
    /\ lpc' = "returned"
    /\ UNCHANGED <<image, target_size, min_quality, batch_vars, s2_vars,
                 gui_vars>>

LadderNext == LadderOpen \/ LadderRung \/ LadderReturn

SpecLadder == LadderInitState /\ [][LadderNext]_vars /\ WF_vars(LadderNext)

---------------------------------------------------------------------------
(* Spec: one call of process_files *)

LadderIdle ==
    /\ image = [dec |-> FALSE, size |-> 0, width |-> 0, height |-> 0]
    /\ target_size = 0
    /\ min_quality = 0
    /\ lpc = "idle"
    /\ quality = 0
    /\ scale = 0
    /\ best_result = NoBlob
    /\ rungs = <<>>
    /\ returned = NoBlob

Init ==
    /\ file_paths \in PathLists
    /\ has_callback \in BOOLEAN
    /\ pc = "start"
    /\ i = 0
    /\ stats = NewStats(Len(file_paths))
    /\ temp_dir = EmptyDir
    /\ calls = <<>>
    /\ jobs = <<>>
    /\ zip = EmptyDir
    /\ fatal = "none"
    /\ LadderIdle
    /\ S2Idle
    /\ GuiIdle

\* the loop head: the next job, or the archive after the last
LoopHead(n) == IF n < Len(file_paths) THEN "callback" ELSE "zip"

\* tempfile.mkdtemp()
Mkdtemp ==
    /\ pc = "start"
    /\ pc' = LoopHead(0)
    /\ UNCHANGED <<file_paths, has_callback, i, stats, temp_dir, calls, jobs,
                   zip, fatal, ladder_vars, s2_vars, gui_vars>>

\* tempfile.mkdtemp() raises: outside the try, nothing to clean up
MkdtempRaises ==
    /\ pc = "start"
    /\ pc' = "raised"
    /\ fatal' = "mkdtemp"
    /\ UNCHANGED <<file_paths, has_callback, i, stats, temp_dir, calls, jobs,
                   zip, ladder_vars, s2_vars, gui_vars>>

\* the head of an iteration: filename, and the callback if one was given
Progress ==
    /\ pc = "callback"
    /\ calls' = IF has_callback
                THEN Append(calls, ProgressArgs(i, file_paths))
                ELSE calls
    /\ pc' = "job"
    /\ UNCHANGED <<file_paths, has_callback, i, stats, temp_dir, jobs, zip,
                   fatal, ladder_vars, s2_vars, gui_vars>>

\* the rest of the iteration: compress_file and the recording of its outcome
JobStep(contents) ==
    /\ pc = "job"
    /\ \E f \in contents :
          LET path == file_paths[i + 1]
              filename == Basename(path)
              r == compress_file(path, f, temp_dir, i + 1)
          IN  /\ stats' = Account(stats, filename, r)
              /\ temp_dir' = r.dir
              /\ jobs' = Append(jobs,
                    [path |-> path, file |-> f, raised |-> r.raised,
                     err |-> r.err, output_path |-> r.output_path,
                     success |-> r.success, final_size |-> r.final_size,
                     trace |-> r.trace,
                     exists |-> r.output_path \in DOMAIN r.dir,
                     disk |-> IF r.output_path \in DOMAIN r.dir
                              THEN r.dir[r.output_path].blob ELSE NoBlob])
              /\ calls' = Append(calls,
                    [ev |-> "recorded", current |-> i + 1,
                     total |-> Len(file_paths), filename |-> filename])
    /\ i' = i + 1
    /\ pc' = LoopHead(i + 1)
    /\ UNCHANGED <<file_paths, has_callback, zip, fatal, ladder_vars, s2_vars,
                   gui_vars>>

Job == JobStep(BatchFilesFor(file_paths[i + 1]))

\* the same iteration, over every file of the model
JobAny == JobStep(FilesFor(file_paths[i + 1]))

\* the archive of every file of temp_dir, its size, and the finally clause
WriteZip ==
    /\ pc = "zip"
    /\ zip' = temp_dir
    /\ \E kb \in ZipSizes : stats' = [stats EXCEPT !.zip_size_kb = kb]
    /\ temp_dir' = EmptyDir
    /\ pc' = "done"
    /\ UNCHANGED <<file_paths, has_callback, i, calls, jobs, fatal,
                   ladder_vars, s2_vars, gui_vars>>

\* writing the archive raises: opening it, or zf.write of one of the files
\* after those listed before it were added (os.listdir gives the files in
\* any order); the archive left on disk holds the files added so far, the
\* finally clause runs and the exception leaves
WriteZipRaises ==
    /\ pc = "zip"
    /\ \E added \in SUBSET (DOMAIN temp_dir) :
          /\ added # DOMAIN temp_dir \/ DOMAIN temp_dir = {}
          /\ zip' = [n \in added |-> temp_dir[n]]
    /\ temp_dir' = EmptyDir
    /\ fatal' = "zip"
    /\ pc' = "raised"
    /\ UNCHANGED <<file_paths, has_callback, i, stats, calls, jobs,
                   ladder_vars, s2_vars, gui_vars>>

Next ==
    \/ Mkdtemp
    \/ MkdtempRaises
    \/ Progress
    \/ Job
    \/ WriteZip
    \/ WriteZipRaises

Spec == Init /\ [][Next]_vars

\* a batch of one job, over every file of the model
InitJob ==
    /\ file_paths \in [1..1 -> Paths]
    /\ has_callback \in BOOLEAN
    /\ pc = "start"
    /\ i = 0
    /\ stats = NewStats(Len(file_paths))
    /\ temp_dir = EmptyDir
    /\ calls = <<>>
    /\ jobs = <<>>
    /\ zip = EmptyDir
    /\ fatal = "none"
    /\ LadderIdle
    /\ S2Idle
    /\ GuiIdle

NextJob ==
    \/ Mkdtemp
    \/ MkdtempRaises
    \/ Progress
    \/ JobAny
    \/ WriteZip
    \/ WriteZipRaises

SpecJob == InitJob /\ [][NextJob]_vars

---------------------------------------------------------------------------
(* The second rewrite of compress_pdf and its embedded images.  A page is  *)
(* [id, images]: its position in the source and its image XObjects in the  *)
(* order of the page's /XObject dictionary.  An image is described by:     *)
(*   name        its key in the dictionary                                 *)
(*   width, height   its /Width and /Height entries                        *)
(*   readable    whether get_data() returns                                *)
(*   data        the bytes of its stream, a blob                           *)
(*   dec, size, enc  as for an image file: whether Image.open decodes the  *)
(*               data, len(data), the codec's sizes rung by rung           *)

ImageOverhead == 20 * 1024
PerImageFloor == 10 * 1024
S2MinQuality == 20

target_image_size == MAX_SIZE_BYTES - ImageOverhead

\* the test that puts an image in images_info
Usable(img) == img.width > 0 /\ img.height > 0 /\ img.readable

\* the entries one page adds to images_info; page is 0-based as in the code
PageInfo(d, p) ==
    LET imgs == d[p].images
        entries == [j \in 1..Len(imgs) |->
                      [page |-> p - 1, name |-> imgs[j].name, img |-> imgs[j]]]
        Kept(e) == Usable(e.img)
    IN  SelectSeq(entries, Kept)

\* images_info after the pages p, p + 1, ... of d
RECURSIVE InfoFrom(_, _)
InfoFrom(d, p) ==
    IF p > Len(d) THEN <<>> ELSE PageInfo(d, p) \o InfoFrom(d, p + 1)

ImagesInfo(d) == InfoFrom(d, 1)

\* sum(img['size'] for img in images_info), over the first n entries
RECURSIVE SumSizes(_, _)
SumSizes(info, n) ==
    IF n = 0 THEN 0 ELSE info[n].img.size + SumSizes(info, n - 1)

TotalImageSize(info) == SumSizes(info, Len(info))

TargetPerImage(target_total, n) == Max(target_total \div n, PerImageFloor)

extract_and_compress_pdf_images(d, target_total) ==
    LET images_info == ImagesInfo(d)
    IN  IF Len(images_info) = 0 THEN NoCompressed
        ELSE IF TotalImageSize(images_info) <= target_total THEN NoCompressed
        ELSE LET target_per_image ==
                     TargetPerImage(target_total, Len(images_info))
                 keys == {<<images_info[n].page, images_info[n].name>> :
                             n \in 1..Len(images_info)}
                 At(key) == CHOOSE n \in 1..Len(images_info) :
                                <<images_info[n].page, images_info[n].name>> = key
             IN  [key \in keys |->
                     compress_image_data(images_info[At(key)].img,
                                         target_per_image, S2MinQuality)]

\* the page loop's body before add_page: for each image of the page whose
\* key is in compressed, the compressed bytes are opened and saved again as
\* a JPEG of quality 50 into img_buffer; img_buffer is not read afterwards
\* and no stream of the page is assigned, so the page is added as it was read
ReassemblePage(page, pn, compressed) == page

\* ---- inputs ----

MaxPages == 2

ImageNames == <<"/Im0", "/Im1">>

\* codec sizes along the 9 rungs of min_quality 20
EncDown == [n \in 1..9 |-> 200000 - 20000 * n]

Embedded(width, dec, size, enc) ==
    [name |-> "", width |-> width, height |-> 4, readable |-> TRUE,
     data |-> SrcBlob(size), dec |-> dec, size |-> size, enc |-> enc]

\* a large photo, a small one, raw pixel data Image.open cannot decode, and
\* an image whose /Width is 0
EmbeddedKinds ==
    {Embedded(15, TRUE, 200000, EncDown),
     Embedded(15, TRUE, 5000, [n \in 1..9 |-> 3000]),
     Embedded(15, FALSE, 190000, NoEnc),
     Embedded(0, TRUE, 100000, EncDown)}

Named(imgs) == [j \in 1..Len(imgs) |-> [imgs[j] EXCEPT !.name = ImageNames[j]]]

PageImages ==
    {Named(imgs) : imgs \in UNION {[1..n -> EmbeddedKinds] :
                                     n \in 0..Len(ImageNames)}}

Docs ==
    UNION {{[p \in 1..n |-> [id |-> p, images |-> ims[p]]] :
               ims \in [1..n -> PageImages]} : n \in 1..MaxPages}

\* ---- SpecS2: one pass of the second rewrite, up to the write of buffer2 ----

S2InitState ==
    /\ doc \in Docs
    /\ compressed_images = NoCompressed
    /\ page_num = 0
    /\ writer2 = <<>>
    /\ out_doc = <<>>
    /\ s2pc = "extract"
    /\ LadderIdle
    /\ BatchIdle
    /\ GuiIdle

S2Extract ==
    /\ s2pc = "extract"
    /\ compressed_images' =
          extract_and_compress_pdf_images(doc, target_image_size)
    /\ s2pc' = "pages"
    /\ UNCHANGED <<doc, page_num, writer2, out_doc, ladder_vars, batch_vars,
                   gui_vars>>

\* one iteration of the page loop
S2Page ==
    /\ s2pc = "pages"
    /\ page_num < Len(doc)
    /\ writer2' = Append(writer2,
          ReassemblePage(doc[page_num + 1], page_num, compressed_images))
    /\ page_num' = page_num + 1
    /\ UNCHANGED <<doc, compressed_images, out_doc, s2pc, ladder_vars,
                   batch_vars, gui_vars>>

\* writer2.write(buffer2)
S2Write ==
    /\ s2pc = "pages"
    /\ page_num = Len(doc)
    /\ out_doc' = writer2
    /\ s2pc' = "done"
    /\ UNCHANGED <<doc, compressed_images, page_num, writer2, ladder_vars,
                   batch_vars, gui_vars>>

S2Next == S2Extract \/ S2Page \/ S2Write

SpecS2 == S2InitState /\ [][S2Next]_vars

---------------------------------------------------------------------------
(* The GUI (src/app.py).  Two contexts run: the GUI thread, which runs the  *)
(* handlers and the callbacks given to root.after, one at a time, and the  *)
(* worker threads started by _start_compression.  A worker is              *)
(*   pc      "call", "returned", "except", "end_except", "finally", "exit" *)
(*   files   the list it passed to process_files (<<>> before the call)    *)
(*   e       the exception bound by "except Exception as e", "" when none  *)
(*           is bound; Python unbinds e at the end of the except clause    *)
(*   sched   the callbacks it gave to root.after, in order (history)       *)
(*   ran     those of its callbacks the main loop has run, each with its   *)
(*           outcome (history)                                             *)
(* root.after(0, f) is kept as a FIFO queue of callbacks.  A callback that *)
(* raises is reported by Tk and the main loop goes on.                     *)

\* the positional arguments of the call in _run_compression, and the
\* positional parameters process_files accepts
CallArgs == 4
MinParams == 2
MaxParams == 3

\* whether a call with nargs positional arguments binds; otherwise Python
\* raises TypeError before the body runs
Binds(nargs) == MinParams <= nargs /\ nargs <= MaxParams

\* the keys of the dict process_files returns
StatsKeys == {"total", "success", "failed", "details", "zip_size_kb"}

SUPPORTED_EXTENSIONS == {".pdf", ".png", ".jpg", ".jpeg"}

\* filename.lower().endswith(SUPPORTED_EXTENSIONS)
Supported(path) == Lower(path.ext) \in SUPPORTED_EXTENSIONS

\* the guard at the head of _start_compression
StartGuard_noflag(fs, busy) == fs = <<>>

StartGuard(fs, busy) == fs = <<>> \/ busy

\* root.after(0, fn): fn is queued for the main loop, which runs it on the
\* GUI thread
after(fn, w) == [fn |-> fn, batch |-> w, ctx |-> "gui"]

\* _reset_ui, on the flag and the two buttons
ResetUi_stuck(fs, btn) ==
    [processing |-> TRUE, select_btn |-> "normal",
     compress_btn |-> IF fs # <<>> THEN "normal" ELSE btn]

ResetUi(fs, btn) ==
    [processing |-> FALSE, select_btn |-> "normal",
     compress_btn |-> IF fs # <<>> THEN "normal" ELSE btn]

NewWorker == [pc |-> "call", files |-> <<>>, e |-> "", sched |-> <<>>,
              ran |-> <<>>]

\* ---- inputs ----

MaxBatches == 2

\* what os.listdir gives for the folders of the model
Folders ==
    {<<>>,
     <<Path("x", "c", ".txt")>>,
     <<Path("x", "a", ".png"), Path("x", "c", ".txt")>>,
     <<Path("x", "a", ".JPG"), Path("x", "a", ".pdf")>>}

\* ---- SpecGui ----

GuiInit ==
    /\ GuiIdle
    /\ LadderIdle
    /\ BatchIdle
    /\ S2Idle

Wrote(fn, ctx) == gui_log' = gui_log \cup {[fn |-> fn, ctx |-> ctx]}

\* the select button's command; askdirectory gives "" when cancelled
SelectFolder ==
    /\ select_btn = "normal"
    /\ \E cancelled \in BOOLEAN, listing \in Folders :
          IF cancelled
          THEN UNCHANGED <<files, compress_btn, result_text, gui_log>>
          ELSE /\ files' = SelectSeq(listing, Supported)
               /\ compress_btn' = IF files' # <<>> THEN "normal"
                                                   ELSE "disabled"
               /\ result_text' = ""
               /\ Wrote("_select_folder", "gui")
    /\ UNCHANGED <<processing, select_btn, workers, tkq, ladder_vars,
                   batch_vars, s2_vars>>

\* _start_compression, called in any state
StartCompression ==
    /\ Len(workers) < MaxBatches
    /\ IF StartGuard(files, processing)
       THEN UNCHANGED <<processing, select_btn, compress_btn, result_text,
                        workers, gui_log>>
       ELSE /\ processing' = TRUE
            /\ select_btn' = "disabled"
            /\ compress_btn' = "disabled"
            /\ result_text' = ""
            /\ workers' = Append(workers, NewWorker)
            /\ Wrote("_start_compression", "gui")
    /\ UNCHANGED <<files, tkq, ladder_vars, batch_vars, s2_vars>>

\* the call of process_files in the worker: self.files is read and the
\* arguments are bound, or TypeError is raised
WorkerCall(w) ==
    /\ workers[w].pc = "call"
    /\ workers' = [workers EXCEPT
          ![w].files = files,
          ![w].pc = IF Binds(CallArgs) THEN "returned" ELSE "except",
          ![w].e = IF Binds(CallArgs) THEN "" ELSE "TypeError"]
    /\ UNCHANGED <<files, processing, select_btn, compress_btn, result_text,
                   tkq, gui_log, ladder_vars, batch_vars, s2_vars>>

\* the handoff: _show_results after the call returned, _show_error in the
\* except clause
WorkerHandoff(w) ==
    /\ workers[w].pc \in {"returned", "except"}
    /\ LET fn == IF workers[w].pc = "returned" THEN "_show_results"
                                               ELSE "_show_error"
       IN  /\ tkq' = Append(tkq, after(fn, w))
           /\ workers' = [workers EXCEPT
                 ![w].sched = Append(@, fn),
                 ![w].pc = IF workers[w].pc = "returned" THEN "finally"
                                                        ELSE "end_except"]
    /\ UNCHANGED <<files, processing, select_btn, compress_btn, result_text,
                   gui_log, ladder_vars, batch_vars, s2_vars>>

\* the end of the except clause: e is unbound
WorkerEndExcept(w) ==
    /\ workers[w].pc = "end_except"
    /\ workers' = [workers EXCEPT ![w].e = "", ![w].pc = "finally"]
    /\ UNCHANGED <<files, processing, select_btn, compress_btn, result_text,
                   tkq, gui_log, ladder_vars, batch_vars, s2_vars>>

\* the finally clause, after which the thread ends
WorkerFinally(w) ==
    /\ workers[w].pc = "finally"
    /\ tkq' = Append(tkq, after("_reset_ui", w))
    /\ workers' = [workers EXCEPT ![w].sched = Append(@, "_reset_ui"),
                                  ![w].pc = "exit"]
    /\ UNCHANGED <<files, processing, select_btn, compress_btn, result_text,
                   gui_log, ladder_vars, batch_vars, s2_vars>>

WorkerStep ==
    \E w \in 1..Len(workers) :
        \/ WorkerCall(w)
        \/ WorkerHandoff(w)
        \/ WorkerEndExcept(w)
        \/ WorkerFinally(w)

Ran(cb, outcome) ==
    workers' = [workers EXCEPT
        ![cb.batch].ran = Append(@, [fn |-> cb.fn, outcome |-> outcome])]

\* the main loop runs the first callback of the queue.  The lambda of the
\* error handoff evaluates str(e) when it runs: NameError if the worker has
\* left its except clause by then.  _show_results writes the pane up to the
\* line that reads stats['output_folder'].
TkRun ==
    /\ tkq # <<>>
    /\ LET cb == Head(tkq)
       IN  /\ tkq' = Tail(tkq)
           /\ CASE cb.fn = "_show_error" ->
                    IF workers[cb.batch].e # ""
                    THEN /\ result_text' = "error"
                         /\ Wrote(cb.fn, cb.ctx)
                         /\ Ran(cb, "ok")
                         /\ UNCHANGED <<processing, select_btn, compress_btn>>
                    ELSE /\ Ran(cb, "NameError")
                         /\ UNCHANGED <<processing, select_btn, compress_btn,
                                        result_text, gui_log>>
                [] cb.fn = "_show_results" ->
                    /\ result_text' = IF "output_folder" \in StatsKeys
                                      THEN "results" ELSE "partial"
                    /\ Wrote(cb.fn, cb.ctx)
                    /\ Ran(cb, IF "output_folder" \in StatsKeys
                               THEN "ok" ELSE "KeyError")
                    /\ UNCHANGED <<processing, select_btn, compress_btn>>
                [] cb.fn = "_reset_ui" ->
                    LET r == ResetUi(files, compress_btn)
                    IN  /\ processing' = r.processing
                        /\ select_btn' = r.select_btn
                        /\ compress_btn' = r.compress_btn
                        /\ Wrote(cb.fn, cb.ctx)
                        /\ Ran(cb, "ok")
                        /\ UNCHANGED result_text
    /\ UNCHANGED <<files, ladder_vars, batch_vars, s2_vars>>

GuiNext == SelectFolder \/ StartCompression \/ WorkerStep \/ TkRun

\* the worker threads and the main loop keep running
SpecGui ==
    GuiInit /\ [][GuiNext]_vars /\ WF_vars(WorkerStep) /\ WF_vars(TkRun)

---------------------------------------------------------------------------
(* Claims about process_files, checked under Spec *)

Detail(k) == stats.details[k]

Counted(k) == Detail(k).status.tag = "OK"

IsPrefix(t, e) == Len(t) <= Len(e) /\ \A n \in 1..Len(t) : t[n] = e[n]

\* C1: total is the number of paths; after every iteration success + failed,
\* the number of details entries and the number of jobs handled are equal;
\* the entries are those of the paths in input order; success and failed
\* count the "OK" entries and the others; a report returned has N entries.
C1_Report ==
    /\ stats.total = Len(file_paths)
    /\ stats.success + stats.failed = Len(stats.details)
    /\ Len(stats.details) = i
    /\ Len(jobs) = i
    /\ \A k \in 1..Len(stats.details) :
          Detail(k).filename = [stem |-> file_paths[k].stem,
                                ext |-> file_paths[k].ext]
    /\ stats.success = Cardinality({k \in 1..Len(stats.details) : Counted(k)})
    /\ pc = "done" =>
          /\ Len(stats.details) = Len(file_paths)
          /\ stats.success + stats.failed = stats.total

\* C1 witness: a report of three jobs, one within budget, one over budget,
\* one that raised
C1_Witness ==
    /\ pc = "done"
    /\ Len(file_paths) = 3
    /\ \E a, b, c \in 1..3 :
          /\ Detail(a).status.tag = "OK"
          /\ Detail(b).status.tag = "Trop gros"
          /\ Detail(c).status.tag = "Erreur"

\* C2: a job that raised has its one entry, "Erreur" with the first 30
\* characters of the exception text at most; failed counts it; the loop goes
\* on to every later job before the archive; the only exceptions that leave
\* process_files are those of mkdtemp and of the archive.
C2_JobExceptionRecorded ==
    /\ Len(stats.details) = Len(jobs)
    /\ \A k \in 1..Len(jobs) :
          jobs[k].raised =>
              /\ Detail(k).status.tag = "Erreur"
              /\ Len(Detail(k).status.text) <= 30
              /\ IsPrefix(Detail(k).status.text, jobs[k].err)
              /\ Len(jobs[k].err) <= 30 => Detail(k).status.text = jobs[k].err
              /\ Len(jobs[k].err) > 30 => Len(Detail(k).status.text) = 30
    /\ stats.failed =
          Cardinality({k \in 1..Len(jobs) :
              jobs[k].raised \/ ~jobs[k].success \/ jobs[k].output_path = NoName})
    /\ pc \in {"zip", "done"} => Len(jobs) = Len(file_paths)
    /\ pc = "raised" => fatal \in {"mkdtemp", "zip"}
    /\ fatal = "zip" => Len(jobs) = Len(file_paths)

\* C2 witness: the first job raised a long exception, a later job was
\* compressed, and the archive was written with the later job's output
C2_Witness ==
    /\ pc = "done"
    /\ Len(jobs) >= 2
    /\ jobs[1].raised
    /\ Len(jobs[1].err) > 30
    /\ Counted(2)
    /\ jobs[2].output_path \in DOMAIN zip

\* C8: with a callback, it is called once per job with (index from 1, total,
\* filename), in input order, after the previous job was recorded and before
\* the job is processed, whatever the earlier jobs did; without one, nothing
\* is called.
C8_ProgressOrder ==
    /\ has_callback =>
          /\ Len(calls) = 2 * i + (IF pc = "job" THEN 1 ELSE 0)
          /\ \A n \in 1..Len(calls) :
                IF n % 2 = 1
                THEN calls[n] =
                        [ev |-> "progress", current |-> (n + 1) \div 2,
                         total |-> Len(file_paths),
                         filename |->
                            [stem |-> file_paths[(n + 1) \div 2].stem,
                             ext |-> file_paths[(n + 1) \div 2].ext]]
                ELSE calls[n].ev = "recorded" /\ calls[n].current = n \div 2
          /\ pc \in {"zip", "done"} => Len(calls) = 2 * Len(file_paths)
    /\ ~has_callback => \A n \in 1..Len(calls) : calls[n].ev = "recorded"

\* C8 witness: the callback for job 2 came after job 1 was recorded as having
\* raised, and before job 2 is processed
C8_Witness ==
    /\ has_callback
    /\ pc = "job"
    /\ i = 1
    /\ jobs[1].raised
    /\ calls[3].ev = "progress"
    /\ calls[3].current = 2

\* an image Image.open cannot decode, or a PDF PdfReader cannot parse
Undecodable(k) ==
    \/ /\ jobs[k].output_path.ext = ".jpg"
       /\ jobs[k].file.fault = "none"
       /\ ~jobs[k].file.dec
    \/ /\ jobs[k].output_path.ext = ".pdf"
       /\ jobs[k].file.fault = "corrupt"

\* an image whose header Image.open reads and whose pixel data cannot be
\* decoded, or a file whose bytes cannot be read
Unloadable(k) ==
    /\ jobs[k].output_path # NoName
    /\ \/ jobs[k].output_path.ext = ".jpg" /\ jobs[k].file.fault = "truncated"
       \/ jobs[k].file.fault = "unreadable"

\* C9 as stated: a corrupt or unreadable file is reported as a failure with
\* a truncated error message
C9_AsStated ==
    \A k \in 1..Len(jobs) :
        (Undecodable(k) \/ Unloadable(k)) =>
            /\ Detail(k).status.tag = "Erreur"
            /\ Len(Detail(k).status.text) <= 30

\* C9 amended: an image Image.open cannot decode, or an unparsable PDF,
\* raises nothing out of compress_file: its output is an unchanged copy of
\* the source, its entry is "OK" when the source is within the target and
\* "Trop gros" otherwise, with its size and no error text.  An image whose
\* header opens and whose pixel data cannot be decoded, or a file that
\* cannot be read, raises out of compress_file: its entry is "Erreur" with
\* the first 30 characters of the exception's text, counted as failed.  In every case the other files are still processed
\* and reported.
C9_Passthrough ==
    /\ \A k \in 1..Len(jobs) :
          /\ Undecodable(k) =>
                /\ ~jobs[k].raised
                /\ jobs[k].exists
                /\ jobs[k].disk = SrcBlob(jobs[k].file.size)
                /\ Detail(k).status.tag =
                      (IF jobs[k].file.size <= MAX_SIZE_BYTES
                       THEN "OK" ELSE "Trop gros")
                /\ Detail(k).status.kb = jobs[k].file.size \div 1024
                /\ Detail(k).status.text = <<>>
          /\ Unloadable(k) =>
                /\ jobs[k].raised
                /\ Detail(k).status.tag = "Erreur"
                /\ Len(Detail(k).status.text) = Min(Len(jobs[k].err), 30)
                /\ IsPrefix(Detail(k).status.text, jobs[k].err)
    /\ Len(stats.details) = Len(jobs)
    /\ stats.success + stats.failed = Len(jobs)
    /\ pc \in {"zip", "done"} => Len(stats.details) = Len(file_paths)

\* C9 witness: an undecodable image was reported "OK", an unparsable PDF
\* "Trop gros", and after them an image whose pixel data cannot be decoded
\* was reported "Erreur" with 30 characters of its 31-character message
C9_Witness ==
    /\ pc = "done"
    /\ Len(jobs) = 3
    /\ Undecodable(1) /\ Detail(1).status.tag = "OK"
    /\ Undecodable(2) /\ Detail(2).status.tag = "Trop gros"
    /\ jobs[2].output_path.ext = ".pdf"
    /\ jobs[3].file.fault = "truncated"
    /\ Detail(3).status.tag = "Erreur"
    /\ Len(Detail(3).status.text) = 30

\* C10 as stated: in the archive every job reported "OK" has its own entry,
\* holding the output that job wrote, so there are at least as many entries
\* as successes
C10_OneEntryPerSuccess ==
    pc = "done" =>
        /\ \A k \in 1..Len(jobs) :
              Counted(k) =>
                  /\ jobs[k].output_path \in DOMAIN zip
                  /\ zip[jobs[k].output_path].job = k
        /\ Cardinality(DOMAIN zip) >= stats.success

---------------------------------------------------------------------------
(* Claims about one job, checked under SpecJob *)

\* C3: for a job compress_file returned from, the job is counted a success
\* exactly when its output file exists and is at most MAX_SIZE_BYTES long,
\* and the size reported is that of the file on disk in KB, rounded down
\* (0 when there is none).
C3_SuccessIffWithinBudget ==
    \A k \in 1..Len(jobs) :
        ~jobs[k].raised =>
            /\ Counted(k) <=>
                  (jobs[k].exists /\ jobs[k].disk.size <= MAX_SIZE_BYTES)
            /\ Detail(k).status.tag \in {"OK", "Trop gros"}
            /\ Detail(k).status.kb =
                  (IF jobs[k].exists THEN jobs[k].disk.size \div 1024 ELSE 0)

\* C3 witness: a PDF that went through the regression guard and is reported
\* over budget with the size of the lossless rewrite left on disk
C3_Witness ==
    /\ Len(jobs) = 1
    /\ jobs[1].trace = <<"S1", "S2", "guard">>
    /\ jobs[1].disk.kind = "s1"
    /\ Detail(1).status.tag = "Trop gros"

\* C7: a PDF whose size is at most the target goes through the passthrough
\* only (neither rewrite is attempted), and when the copy does not raise the
\* output holds the source's bytes and the job is a success.
C7_Passthrough ==
    \A k \in 1..Len(jobs) :
        (jobs[k].output_path.ext = ".pdf"
            /\ jobs[k].file.size <= MAX_SIZE_BYTES) =>
            /\ jobs[k].trace = <<"S0">>
            /\ ~jobs[k].raised =>
                  /\ jobs[k].exists
                  /\ jobs[k].disk = SrcBlob(jobs[k].file.size)
                  /\ jobs[k].success
                  /\ Counted(k)

\* C7 witness: a PDF of exactly the target size was copied unchanged
C7_Witness ==
    /\ Len(jobs) = 1
    /\ jobs[1].output_path.ext = ".pdf"
    /\ jobs[1].file.size = MAX_SIZE_BYTES
    /\ jobs[1].disk = SrcBlob(MAX_SIZE_BYTES)
    /\ Counted(1)

---------------------------------------------------------------------------
(* Claims about compress_pdf, checked under SpecJob *)

IsPdf(k) == jobs[k].output_path.ext = ".pdf"

Has(trace, step) == \E n \in 1..Len(trace) : trace[n] = step

Times(trace, step) == Cardinality({n \in 1..Len(trace) : trace[n] = step})

IsStrategy(step) == step \in {"S0", "S1", "S2", "S2b"}

\* the job went through the second rewrite and compress_pdf returned from
\* its try block
AfterS2(k) ==
    /\ IsPdf(k)
    /\ Has(jobs[k].trace, "S2")
    /\ ~Has(jobs[k].trace, "fallback")
    /\ ~jobs[k].raised

\* C12: the strategies a PDF job goes through are S0 alone, S1 alone, or S1
\* then S2; S1 is attempted only for a source above the target and S2 only
\* when the lossless rewrite is above the target; when S1 does not raise and
\* its size is at most the target, S1 is the only strategy run, the output
\* is S1's result and the job is a success.
C12_StrategyOrder ==
    \A k \in 1..Len(jobs) :
        IsPdf(k) =>
            /\ SelectSeq(jobs[k].trace, IsStrategy)
                  \in {<<"S0">>, <<"S1">>, <<"S1", "S2">>}
            /\ Has(jobs[k].trace, "S1") => jobs[k].file.size > MAX_SIZE_BYTES
            /\ Has(jobs[k].trace, "S2") => jobs[k].file.s1 > MAX_SIZE_BYTES
            /\ (/\ jobs[k].file.size > MAX_SIZE_BYTES
                /\ jobs[k].file.fault \notin {"unreadable", "corrupt"}
                /\ jobs[k].file.s1 <= MAX_SIZE_BYTES) =>
                  /\ jobs[k].trace = <<"S1">>
                  /\ jobs[k].exists
                  /\ jobs[k].disk = PdfBlob("s1", jobs[k].file.s1)
                  /\ jobs[k].success
                  /\ Counted(k)

\* C12 witness: a source above the target whose lossless rewrite is exactly
\* the target size was written as S1's result, without S2
C12_Witness ==
    /\ Len(jobs) = 1
    /\ jobs[1].file.size > MAX_SIZE_BYTES
    /\ jobs[1].file.s1 = MAX_SIZE_BYTES
    /\ jobs[1].trace = <<"S1">>
    /\ jobs[1].disk = PdfBlob("s1", MAX_SIZE_BYTES)
    /\ Counted(1)

\* the guard's condition in the claim's words: the S2 output is larger than
\* the target and larger than half the original
LargerThanTargetAndHalf(k) ==
    /\ jobs[k].file.s2 > MAX_SIZE_BYTES
    /\ 2 * jobs[k].file.s2 > jobs[k].file.size

GuardOutcome(k) ==
    jobs[k].disk = IF LargerThanTargetAndHalf(k)
                   THEN PdfBlob("s1", jobs[k].file.s1)
                   ELSE PdfBlob("s2", jobs[k].file.s2)

\* C13 as stated: after S2 the output is S1's result when the S2 output is
\* larger than the target and larger than half the original, else S2's; and
\* whenever S2 was reached the output is never larger than S1's result
C13_AsStated ==
    \A k \in 1..Len(jobs) :
        AfterS2(k) =>
            /\ GuardOutcome(k)
            /\ jobs[k].disk.size <= jobs[k].file.s1

\* C13, amended: after S2 the output is S1's result when the S2 output is
\* larger than the target and larger than half the original, else S2's; the
\* output is never larger than S1's result when the S2 output is not, and
\* otherwise it is larger only when the S2 output was kept, that is when it
\* is above the target and at most half the original
C13_Guard ==
    \A k \in 1..Len(jobs) :
        AfterS2(k) =>
            /\ GuardOutcome(k)
            /\ jobs[k].file.s2 <= jobs[k].file.s1 =>
                  jobs[k].disk.size <= jobs[k].file.s1
            /\ jobs[k].disk.size > jobs[k].file.s1 =>
                  /\ jobs[k].disk = PdfBlob("s2", jobs[k].file.s2)
                  /\ jobs[k].file.s2 > jobs[k].file.s1
                  /\ jobs[k].file.s2 > MAX_SIZE_BYTES
                  /\ 2 * jobs[k].file.s2 <= jobs[k].file.size

\* C13 witness: an S2 output above the target and of at most half the
\* original was kept although the lossless rewrite was four bytes smaller
C13_Witness ==
    /\ Len(jobs) = 1
    /\ AfterS2(1)
    /\ jobs[1].file.s1 = MAX_SIZE_BYTES + 1
    /\ jobs[1].file.s2 = MAX_SIZE_BYTES + 5
    /\ 2 * jobs[1].file.s2 <= jobs[1].file.size
    /\ jobs[1].disk = PdfBlob("s2", jobs[1].file.s2)
    /\ jobs[1].disk.size > jobs[1].file.s1

\* S1 or S2 raised: the source is above the target and PdfReader fails, or
\* the second rewrite was reached and raises
StrategyRaised(k) ==
    /\ IsPdf(k)
    /\ jobs[k].file.size > MAX_SIZE_BYTES
    /\ \/ jobs[k].file.fault \in {"unreadable", "corrupt"}
       \/ /\ jobs[k].file.fault \in {"s2", "late"}
          /\ jobs[k].file.s1 > MAX_SIZE_BYTES

CopiedUnsuccessful(k) ==
    /\ ~jobs[k].raised
    /\ jobs[k].exists
    /\ jobs[k].disk = SrcBlob(jobs[k].file.size)
    /\ ~jobs[k].success
    /\ ~Counted(k)

\* C14 as stated: when S1 or S2 raises, the output is a copy of the source
\* and the job is not a success; the fallback is reached only for a source
\* above the target
C14_AsStated ==
    \A k \in 1..Len(jobs) :
        /\ StrategyRaised(k) => CopiedUnsuccessful(k)
        /\ (IsPdf(k) /\ Has(jobs[k].trace, "fallback")) =>
              jobs[k].file.size > MAX_SIZE_BYTES

\* C14, amended: when S1 or S2 raises, the fallback copy is attempted; if
\* the copy does not raise in turn, the output is a copy of the source and
\* the job is not a success; if it raises (the source cannot be read), the
\* exception leaves compress_pdf and the job is recorded as an error, not a
\* success; the fallback is reached only for a source above the target
C14_Fallback ==
    \A k \in 1..Len(jobs) :
        /\ StrategyRaised(k) =>
              /\ jobs[k].trace[Len(jobs[k].trace)] = "fallback"
              /\ IF jobs[k].file.fault = "unreadable"
                 THEN jobs[k].raised /\ Detail(k).status.tag = "Erreur"
                 ELSE CopiedUnsuccessful(k)
        /\ (IsPdf(k) /\ Has(jobs[k].trace, "fallback")) =>
              /\ jobs[k].file.size > MAX_SIZE_BYTES
              /\ StrategyRaised(k)

\* C14 witness: the second rewrite raised after it had written the output,
\* and the output holds the source's bytes, reported over budget
C14_Witness ==
    /\ Len(jobs) = 1
    /\ jobs[1].file.fault = "late"
    /\ jobs[1].trace = <<"S1", "S2", "fallback">>
    /\ CopiedUnsuccessful(1)
    /\ Detail(1).status.tag = "Trop gros"

\* C16: when the S2 result is above the target, exactly one further pass,
\* S2b (page rasterization), is run, and never more than one
C16_OneRetry ==
    \A k \in 1..Len(jobs) :
        (AfterS2(k) /\ jobs[k].file.s2 > MAX_SIZE_BYTES) =>
            Times(jobs[k].trace, "S2b") = 1

---------------------------------------------------------------------------
(* Claims about the second rewrite, checked under SpecS2 *)

\* the image stream of the written document at a key of images_info
WrittenStream(e) ==
    LET imgs == out_doc[e.page + 1].images
        j == CHOOSE j \in 1..Len(imgs) : imgs[j].name = e.name
    IN  imgs[j].data

\* C15: once the second rewrite is written, when the embedded images'
\* combined size exceeds the image budget, every embedded image has been
\* recompressed on its own by compress_image_data (per-image target
\* max(budget / count, 10 KiB), min_quality 20), the written document has
\* the source's pages in the source's order, and in it each image stream is
\* the recompressed image.
C15_ImagesReplaced ==
    LET info == ImagesInfo(doc)
    IN  (s2pc = "done" /\ TotalImageSize(info) > MAX_SIZE_BYTES - 20 * 1024) =>
            /\ Len(out_doc) = Len(doc)
            /\ \A p \in 1..Len(doc) : out_doc[p].id = doc[p].id
            /\ \A n \in 1..Len(info) :
                  LET key == <<info[n].page, info[n].name>>
                      per_image == Max((MAX_SIZE_BYTES - 20 * 1024)
                                          \div Len(info), 10 * 1024)
                  IN  /\ key \in DOMAIN compressed_images
                      /\ compressed_images[key] =
                            compress_image_data(info[n].img, per_image, 20)
                      /\ WrittenStream(info[n]) = compressed_images[key]

---------------------------------------------------------------------------
(* Claims about the GUI, checked under SpecGui *)

Live(w) == workers[w].pc # "exit"

\* C11: no step of this specification is an I/O failure, so every batch
\* hands the report over: the error handoff is never scheduled, and a
\* worker that has ended scheduled _show_results before _reset_ui.
C11_ReportHandedOff ==
    \A w \in 1..Len(workers) :
        /\ ~Has(workers[w].sched, "_show_error")
        /\ workers[w].pc = "exit" =>
              workers[w].sched = <<"_show_results", "_reset_ui">>

\* the state part of C17
C17_Inv ==
    /\ Cardinality({w \in 1..Len(workers) : Live(w)}) <= 1
    /\ \A w \in 1..Len(workers) :
          Live(w) =>
              /\ processing
              /\ select_btn = "disabled"
              /\ workers[w].pc # "call" => workers[w].files = files
    /\ \A entry \in gui_log : entry.ctx = "gui"
    /\ \A n \in 1..Len(tkq) : tkq[n].ctx = "gui"

\* C17: at most one worker is alive at a time, and while one is alive the
\* processing flag is set, the select button is disabled and self.files is
\* the list the worker passed to process_files; the flag and the widgets
\* are written by handlers and callbacks running on the GUI thread only;
\* no step taken while processing is true starts a worker, and no step
\* removes a worker or moves it anywhere but forward to its end.
C17_OneBatch ==
    /\ []C17_Inv
    /\ [][/\ processing => workers' = workers \/ Len(workers') = Len(workers)
          /\ Len(workers') >= Len(workers)
          /\ \A w \in 1..Len(workers) :
                workers[w].pc = "exit" => workers'[w].pc = "exit"]_vars

\* C17 witness: a second batch is running after the first one ended
C17_Witness ==
    /\ Len(workers) = 2
    /\ workers[1].pc = "exit"
    /\ Live(2)
    /\ workers[2].files # <<>>
    /\ processing

\* the state part of C18
C18_Inv ==
    \A w \in 1..Len(workers) :
        /\ Times(workers[w].sched, "_reset_ui") <= 1
        /\ workers[w].pc = "exit" =>
              /\ Len(workers[w].sched) = 2
              /\ workers[w].sched[1] \in {"_show_results", "_show_error"}
              /\ workers[w].sched[2] = "_reset_ui"
        /\ Len(workers[w].ran) <= Len(workers[w].sched)
        /\ \A n \in 1..Len(workers[w].ran) :
              workers[w].ran[n].fn = workers[w].sched[n]
        /\ (w = Len(workers) /\ Len(workers[w].ran) = 2) =>
              /\ ~processing
              /\ select_btn = "normal"
              /\ files # <<>> => compress_btn = "normal"

\* C18: a worker schedules _reset_ui exactly once, as the last thing it
\* does and after its result or error handoff; the main loop runs the
\* batch's callbacks in that order, so _reset_ui runs last, also when the
\* handoff callback raised; once it has run, processing is false, the select
\* button is enabled and so is the compress button when files are selected;
\* and whenever processing is true it eventually becomes false again.
C18_BackToIdle ==
    /\ []C18_Inv
    /\ processing ~> (~processing /\ select_btn = "normal")

\* C18 witness: the error handoff raised NameError in the main loop and
\* _reset_ui still ran after it and returned the GUI to idle
C18_Witness ==
    /\ Len(workers) = 1
    /\ workers[1].ran = <<[fn |-> "_show_error", outcome |-> "NameError"],
                          [fn |-> "_reset_ui", outcome |-> "ok"]>>
    /\ ~processing
    /\ select_btn = "normal"
    /\ compress_btn = "normal"

---------------------------------------------------------------------------
(* Claims about compress_image_data, checked under SpecLadder *)

Fits(n) == rungs[n].size <= target_size

\* C4: for a decodable image, no rung is encoded after one that meets the
\* target; the value returned is the blob of the last rung encoded, which is
\* the first rung that meets the target when one does; when none does, the
\* return happens only once the loop condition fails, and the value is the
\* last rung's blob whatever the earlier sizes were (the input bytes if no
\* rung was encoded at all, which needs min_quality > 80).
C4_FirstFitElseLast ==
    image.dec =>
        /\ \A n \in 1..(Len(rungs) - 1) : ~Fits(n)
        /\ lpc = "returned" =>
              /\ Len(rungs) > 0 => returned = rungs[Len(rungs)]
              /\ Len(rungs) = 0 =>
                    returned = SrcBlob(image.size) /\ min_quality > Q0
              /\ (Len(rungs) > 0 /\ Fits(Len(rungs))) =>
                    returned.size <= target_size
              /\ (Len(rungs) > 0 /\ ~Fits(Len(rungs))) =>
                    ~LoopCond(quality, scale, min_quality)

\* C4 witness: no rung met the target, and the blob returned (the last) is
\* larger than an earlier one
C4_Witness ==
    /\ image.dec
    /\ lpc = "returned"
    /\ Len(rungs) >= 2
    /\ returned.size > target_size
    /\ \E n \in 1..(Len(rungs) - 1) : rungs[n].size < returned.size

\* C5: between two successive rungs neither quality nor scale increases
C5_Monotone ==
    \A n \in 1..(Len(rungs) - 1) :
        /\ rungs[n + 1].quality <= rungs[n].quality
        /\ rungs[n + 1].scale <= rungs[n].scale

\* C5 witness: a ladder on which both quality and scale went down
C5_Witness ==
    \E n \in 1..(Len(rungs) - 1) :
        /\ rungs[n + 1].quality < rungs[n].quality
        /\ rungs[n + 1].scale < rungs[n].scale

\* the variant of the loop: every rung encoded is within the loop condition's
\* floors, and each rung that does not return lowers quality by at least 5
LadderVariant ==
    /\ \A n \in 1..Len(rungs) :
          rungs[n].quality >= min_quality /\ rungs[n].scale >= MinScale
    /\ \A n \in 1..(Len(rungs) - 1) : rungs[n + 1].quality < rungs[n].quality
    /\ lpc = "loop" => quality <= Q0 - SmallStep * Len(rungs)

\* C6: every call returns, also when no rung meets the target; quality and
\* scale of every rung are bounded below by the loop condition and quality
\* strictly decreases from one rung to the next
C6_Terminates == []LadderVariant /\ <>(lpc = "returned")

\* C6 witness: the ladder ran to its end without meeting the target
C6_Witness ==
    /\ image.dec
    /\ lpc = "returned"
    /\ Len(rungs) > 0
    /\ \A n \in 1..Len(rungs) : ~Fits(n)

\* the rungs the claim lists, as <<quality, scale in tenths>>
ListedRungs ==
    <<<<80, 10>>, <<70, 10>>, <<60, 10>>, <<50, 10>>, <<40, 10>>, <<35, 9>>,
      <<30, 8>>, <<25, 7>>, <<20, 6>>>>

RungAt(n) == <<rungs[n].quality, rungs[n].scale>>

\* C19: the ladder starts at (80, 1.0); from one rung to the next quality
\* drops by 10 while it is above 40 and by 5 otherwise, and scale drops by
\* 0.1 exactly on the steps where quality drops by 5; a rung is encoded only
\* while quality >= min_quality and scale >= 0.3.  For min_quality 25 and 20
\* the rungs encoded are, in order, the listed ones: all eight up to
\* (25, 0.7) when no rung meets the target with min_quality 25, and the
\* ninth, (20, 0.6), as well with min_quality 20; the ladder then ends on
\* quality < min_quality with scale still >= 0.3.
C19_Rungs ==
    /\ Len(rungs) > 0 => RungAt(1) = <<Q0, FullScale>>
    /\ \A n \in 1..(Len(rungs) - 1) :
          LET dq == rungs[n].quality - rungs[n + 1].quality
              ds == rungs[n].scale - rungs[n + 1].scale
          IN  /\ dq = IF rungs[n].quality > HighQuality THEN 10 ELSE 5
              /\ ds = IF dq = 5 THEN 1 ELSE 0
    /\ \A n \in 1..Len(rungs) :
          rungs[n].quality >= min_quality /\ rungs[n].scale >= MinScale
    /\ min_quality \in {20, DefaultMinQuality} =>
          /\ Len(rungs) <= Len(ListedRungs)
          /\ \A n \in 1..Len(rungs) : RungAt(n) = ListedRungs[n]
          /\ (lpc = "returned" /\ image.dec /\ ~Fits(Len(rungs))) =>
                /\ Len(rungs) = IF min_quality = 20 THEN 9 ELSE 8
                /\ quality < min_quality
                /\ scale >= MinScale

\* C19 witness: with min_quality 20 no rung met the target and the ninth
\* rung, (20, 0.6), was the last one encoded
C19_Witness ==
    /\ min_quality = 20
    /\ lpc = "returned"
    /\ Len(rungs) = 9
    /\ RungAt(9) = <<20, 6>>
    /\ ~Fits(9)

---------------------------------------------------------------------------
(* The pixel size of a rung *)

\* d is an integer nearest to n tenths (a tie may go either way)
Nearest(d, n) == 10 * d - 5 <= n /\ n <= 10 * d + 5

\* d is n tenths rounded to an integer, then floored at 1 pixel
RoundedPixels(d, n) == \E r \in 0..(n + 1) : Nearest(r, n) /\ d = Max(1, r)

\* d is n tenths truncated to an integer, then floored at 1 pixel
TruncatedPixels(d, n) ==
    IF n < 10 THEN d = 1 ELSE 10 * d <= n /\ n < 10 * (d + 1)

\* C20 as stated: at every rung with scale < 1.0 the pixel size encoded is
\* (round(width * scale), round(height * scale)), each floored at 1 pixel,
\* and at scale 1.0 it is the original pixel size
C20_AsStated ==
    \A n \in 1..Len(rungs) :
        IF rungs[n].scale < FullScale
        THEN /\ RoundedPixels(rungs[n].width, image.width * rungs[n].scale)
             /\ RoundedPixels(rungs[n].height, image.height * rungs[n].scale)
        ELSE /\ rungs[n].width = image.width
             /\ rungs[n].height = image.height

\* C20, amended: at every rung with scale < 1.0 the pixel size encoded is
\* (int(width * scale), int(height * scale)), the products truncated toward
\* zero and not rounded, each floored at 1 pixel, and at scale 1.0 it is the
\* original pixel size
C20_Truncated ==
    \A n \in 1..Len(rungs) :
        IF rungs[n].scale < FullScale
        THEN /\ TruncatedPixels(rungs[n].width, image.width * rungs[n].scale)
             /\ TruncatedPixels(rungs[n].height, image.height * rungs[n].scale)
        ELSE /\ rungs[n].width = image.width
             /\ rungs[n].height = image.height

\* C20 witness: a 3 x 10 image at scale 0.9 was encoded at 2 x 9 (2.7
\* truncated, where rounding gives 3)
C20_Witness ==
    \E n \in 1..Len(rungs) :
        /\ rungs[n].scale = 9
        /\ image.width = 3
        /\ rungs[n].width = 2
        /\ rungs[n].height = 9

=============================================================================
